---- MODULE Spec2Model ----
(***************************************************************************)
(* Carrot-point path follower of lokarriaclass-carrot-full.py and          *)
(* lokarriaclass-carrot-final.py (the two files share the loop; they       *)
(* differ in their start-up code and in whether UnexpectedResponse is      *)
(* defined).                                                               *)
(*                                                                         *)
(* Units.  Lengths are integers in tenths of a metre, so that              *)
(* DISTANCE_THRESHOLD = 0.5 is 5 and LOOK_AHEAD_DISTANCE = 0.7 is 7.       *)
(* Angles are integers in eighths of a turn, so that pi is 4.  Distances   *)
(* are compared through their squares (sqrt is strictly increasing).       *)
(* Arithmetic is exact: floating-point rounding is not modelled.           *)
(***************************************************************************)
EXTENDS Integers, Sequences, FiniteSets, TLC

\* ---------------------------------------------------------------- bounds
MaxPathLen == 3
MaxWindow == 4
MaxComponent == 1

\* ------------------------------------------------------------- constants
pi == 4
DISTANCE_THRESHOLD == 5
LOOK_AHEAD_DISTANCE == 7
GOTOPOINT_ANG_SPEED == 3
GOTOPOINT_LIN_SPEED == 1
DISTANCE_BETWEEN_CARROT_POINTS == 3

\* ------------------------------------------------------- input domains
\* Positions the path file can hold (the 'Position' of a path entry).
Waypoints ==
  { [X |-> 0, Y |-> 0], [X |-> 2, Y |-> 0],
    [X |-> 5, Y |-> -5], [X |-> 0, Y |-> 5] }

\* Positions the localization service can report.  Every difference
\* waypoint - position is axis-aligned or diagonal, so atan2 is exact.
RobotPositions == { [X |-> 0, Y |-> 0], [X |-> 5, Y |-> 0] }

\* Orientations the localization service can report: yaw by 0, pi/2, pi and
\* 3*pi/2, each quaternion scaled by a positive factor to integer
\* components (toHeading is invariant under such a scaling).
Orientations ==
  { [W |-> 1,  X |-> 0, Y |-> 0, Z |-> 0],
    [W |-> 1,  X |-> 0, Y |-> 0, Z |-> 1],
    [W |-> 0,  X |-> 0, Y |-> 0, Z |-> 1],
    [W |-> -1, X |-> 0, Y |-> 0, Z |-> 1] }

\* Outcomes of one HTTP exchange with the MRDS server: the expected status,
\* another status, or no connection (httplib raises socket.error).
Statuses == {"ok", "rejected", "unreachable"}

\* Answers to GET /lokarria/localization.
PoseResponses ==
  [status : {"ok"}, Position : RobotPositions, Orientation : Orientations]
  \cup { [status |-> s, Position |-> [X |-> 0, Y |-> 0],
          Orientation |-> [W |-> 1, X |-> 0, Y |-> 0, Z |-> 0]]
         : s \in {"rejected", "unreachable"} }

\* The content of the path file: a list of positions, or no readable file.
NoFile == << [X |-> -1, Y |-> -1] >>
Paths == UNION { [1..n -> Waypoints] : n \in 0..MaxPathLen }
PathFiles == Paths \cup {NoFile}

\* Quaternions with integer components, the operands of qmult and rotate.
Quaternions ==
  [W : (-MaxComponent)..MaxComponent, X : (-MaxComponent)..MaxComponent,
   Y : (-MaxComponent)..MaxComponent, Z : (-MaxComponent)..MaxComponent]

\* ------------------------------------------------------------- geometry
\* cos and sin at the multiples of pi/2 (a is in eighths of a turn).
cos(a) ==
  LET m == a % 8
  IN  CASE m = 0 -> 1 [] m = 2 -> 0 [] m = 4 -> -1 [] m = 6 -> 0

sin(a) ==
  LET m == a % 8
  IN  CASE m = 0 -> 0 [] m = 2 -> 1 [] m = 4 -> 0 [] m = 6 -> -1

\* atan2 on the axis-aligned and diagonal vectors; atan2(0, 0) = 0 and
\* atan2(0, x) = pi for x < 0.  The result is in (-pi, pi].
atan2(dy, dx) ==
  CASE dy = 0 /\ dx >= 0 -> 0
    [] dy = 0 /\ dx < 0 -> pi
    [] dx = 0 /\ dy > 0 -> 2
    [] dx = 0 /\ dy < 0 -> -2
    [] dx > 0 /\ dy = dx -> 1
    [] dx < 0 /\ dy = -dx -> 3
    [] dx < 0 /\ dy = dx -> -3
    [] dx > 0 /\ dy = -dx -> -1

\* The square of distanceBetween(p1, p2).
distanceBetween(p1, p2) ==
  LET dx == p1.Y - p2.Y
      dy == p1.X - p2.X
  IN  dx * dx + dy * dy

\* -------------------------------------------------------- quaternions
quaternion(v) == [W |-> 0, X |-> v.X, Y |-> v.Y, Z |-> v.Z]

vector(q) == [X |-> q.X, Y |-> q.Y, Z |-> q.Z]

\* conjugate without the change of sign.
conjugate_Identity(q) == q

conjugate(q) == [W |-> q.W, X |-> -q.X, Y |-> -q.Y, Z |-> -q.Z]

\* qmult with its operands exchanged.
qmult_Exchanged(q1, q2) ==
  [W |-> q2.W * q1.W - q2.X * q1.X - q2.Y * q1.Y - q2.Z * q1.Z,
   X |-> q2.W * q1.X + q2.X * q1.W + q2.Y * q1.Z - q2.Z * q1.Y,
   Y |-> q2.W * q1.Y - q2.X * q1.Z + q2.Y * q1.W + q2.Z * q1.X,
   Z |-> q2.W * q1.Z + q2.X * q1.Y - q2.Y * q1.X + q2.Z * q1.W]

qmult(q1, q2) ==
  [W |-> q1.W * q2.W - q1.X * q2.X - q1.Y * q2.Y - q1.Z * q2.Z,
   X |-> q1.W * q2.X + q1.X * q2.W + q1.Y * q2.Z - q1.Z * q2.Y,
   Y |-> q1.W * q2.Y - q1.X * q2.Z + q1.Y * q2.W + q1.Z * q2.X,
   Z |-> q1.W * q2.Z + q1.X * q2.Y - q1.Y * q2.X + q1.Z * q2.W]

rotate(q, v) == vector(qmult(qmult(q, quaternion(v)), conjugate(q)))

headingVector(q) == rotate(q, [X |-> 1, Y |-> 0, Z |-> 0])

\* toHeading without the angle normalisation.
toHeading_NoNormalise(q) ==
  LET v == headingVector(q)
  IN  atan2(v.Y, v.X)

toHeading(q) ==
  LET v == headingVector(q)
      angle == atan2(v.Y, v.X)
  IN  IF angle > 0 THEN angle ELSE 2 * pi + angle

\* ------------------------------------------------------------- state
VARIABLES
  variant,        \* which file runs: "full", "final" or "carrot"
  file,           \* content of the path file FILENAME
  LA_THRESHOLD,   \* the search window (a module constant of the program)
  pc,             \* position of the main program
  error,          \* the exception that ended the run, or "none"
  path,           \* Robot.path
  poseKnown,      \* Robot.x, .y, .heading have been assigned
  x, y, heading,  \* Robot.x, Robot.y, Robot.heading
  orientation,    \* the 'Orientation' of the pose read last
  sampled,        \* a pose has been read in the current tick
  prevPointInd,   \* the search cursor
  atDestination,  \* loop flag
  carrotPoint,    \* the selected carrot
  point,          \* the look-ahead point of the selection just made
  tickStart,      \* the cursor at the start of the current tick
  reads,          \* path indices read by the selection just made
  bearing,        \* goToPoint's local bearing
  angularSpeed,   \* goToPoint's local angularSpeed (in 10^-6 rad/s)
  linearSpeed,    \* the linear speed goToPoint passes to setSpeed
  left, right,    \* operands of the quaternion functions
  product,        \* qmult(left, right)
  rotated,        \* rotate(left, vector(right))
  points,         \* the carrot points chooseCarrotPoints returned
  pointInd,       \* index of the carrot point goToPoint is called with
  result,         \* goToPoint's loop flag in lokarriaclass-carrot.py
  reported,       \* the last updateAttributes printed its error message
  sentAfterGoal   \* commands issued since atDestination was set

vars ==
  << variant, file, LA_THRESHOLD, pc, error, path, poseKnown, x, y, heading,
     orientation, sampled, prevPointInd, atDestination, carrotPoint, point,
     tickStart, reads, bearing, angularSpeed, linearSpeed, sentAfterGoal,
     left, right, product, rotated, points, pointInd, result, reported >>

\* The variables of the program of lokarriaclass-carrot.py.
waypoint == << points, pointInd, result, reported >>

\* The variables of the quaternion functions applied on their own.
quat == << left, right, product, rotated >>

Origin == [X |-> 0, Y |-> 0]

\* The orientation held before the first pose has been read.
NoRotation == [W |-> 1, X |-> 0, Y |-> 0, Z |-> 0]

StopCmd == [angular |-> 0, linear |-> 0]

Init ==
  /\ variant \in {"full", "final"}
  /\ file \in PathFiles
  /\ LA_THRESHOLD \in 0..MaxWindow
  /\ pc = "start"
  /\ error = "none"
  /\ path = << >>
  /\ poseKnown = FALSE
  /\ x = 0
  /\ y = 0
  /\ heading = 0
  /\ orientation = NoRotation
  /\ sampled = FALSE
  /\ prevPointInd = 0
  /\ atDestination = FALSE
  /\ carrotPoint = Origin
  /\ point = Origin
  /\ tickStart = 0
  /\ reads = {}
  /\ bearing = 0
  /\ angularSpeed = 0
  /\ linearSpeed = 0
  /\ sentAfterGoal = << >>
  /\ left = NoRotation
  /\ right = NoRotation
  /\ product = NoRotation
  /\ rotated = [X |-> 0, Y |-> 0, Z |-> 0]
  /\ points = << >>
  /\ pointInd = 0
  /\ result = FALSE
  /\ reported = FALSE

\* ------------------------------------------------------------- helpers
\* path[i] with the program's 0-based index.
At(i) == path[i + 1]

\* The exception a failed GET /lokarria/localization ends in: httplib's
\* socket.error, or the use of what getPose returns on another status
\* (an UnexpectedResponse in full, an undefined name in final).
PoseError(s) ==
  IF s.status = "unreachable" THEN "socket.error"
  ELSE IF variant = "full" THEN "TypeError"
  ELSE "NameError: UnexpectedResponse"

\* setSpeed's outcome for a server answer: "raise" or "return".
SetSpeedRaises(ack) ==
  \/ ack = "unreachable"
  \/ ack = "rejected" /\ variant = "final"

SetSpeedError(ack) ==
  IF ack = "unreachable" THEN "socket.error"
  ELSE "NameError: UnexpectedResponse"

\* Any content of the path file taken as a path.
Loaded_Always(f) == TRUE

\* openJsonTrajectory returns a path: the file exists and parses.
Loaded(f) == f # NoFile

\* lookAhead with the point projected behind the robot.
lookAhead_Behind(px, py, h, distance) ==
  LET yp == py - distance * cos(h - pi \div 2)
      xp == px + distance * sin(h - pi \div 2)
  IN  [X |-> xp, Y |-> yp]

\* Robot.lookAhead on the stored pose.
lookAhead(px, py, h, distance) ==
  LET yp == py + distance * cos(h - pi \div 2)
      xp == px - distance * sin(h - pi \div 2)
  IN  [X |-> xp, Y |-> yp]

\* getBearing without the wrap of the difference.
getBearing_NoWrap(px, py, h, coordinates) ==
  atan2(coordinates.Y - py, coordinates.X - px) - h

\* Robot.getBearing on the stored pose.
getBearing(px, py, h, coordinates) ==
  LET dX == coordinates.X - px
      dY == coordinates.Y - py
      angle == atan2(dY, dX)
      b == angle - h
  IN  IF b > pi THEN b - 2 * pi
      ELSE IF b < -pi THEN b + 2 * pi
      ELSE b

\* The square of what Robot.distanceTo returns, after its pose update.
distanceTo(px, py, coordinates) ==
  LET dx == coordinates.X - px
      dy == coordinates.Y - py
  IN  dx * dx + dy * dy

\* The ratio without its saturation: 2 * angle^2, the first term of the
\* expansion of 1 - exp(-2 * angle^2), in units of 10^-6.
coefficient_Unsaturated(angle) == 2 * angle * angle * 616850

\* 1 - exp(-2 * angle^2) in units of 10^-6, rounded down, at the
\* multiples of pi/4 in [-pi, pi].
coefficient(angle) ==
  LET a == IF angle < 0 THEN -angle ELSE angle
  IN  CASE a = 0 -> 0
        [] a = 1 -> 708787
        [] a = 2 -> 992808
        [] a = 3 -> 999984
        [] a = 4 -> 999999

\* The command with the angular speed always counter-clockwise.
Command_Unsigned(b) ==
  [angular |-> coefficient(b) * GOTOPOINT_ANG_SPEED,
   linear |-> GOTOPOINT_LIN_SPEED]

\* The command with the linear speed cut to zero on a turn.
Command_Decelerating(b) ==
  [angular |-> IF b > 0 THEN coefficient(b) * GOTOPOINT_ANG_SPEED
               ELSE coefficient(b) * (-GOTOPOINT_ANG_SPEED),
   linear |-> IF b = 0 THEN GOTOPOINT_LIN_SPEED ELSE 0]

\* The command goToPoint computes from a bearing.
Command(b) ==
  [angular |-> IF b > 0 THEN coefficient(b) * GOTOPOINT_ANG_SPEED
               ELSE coefficient(b) * (-GOTOPOINT_ANG_SPEED),
   linear |-> GOTOPOINT_LIN_SPEED]

\* Every waypoint of the path chosen.
chooseCarrotPoints_All(p, distance) == p

\* The for loop of chooseCarrotPoints from the k-th waypoint on, pts being
\* the points chosen so far.
RECURSIVE chooseLoop(_, _, _, _)
chooseLoop(p, k, distance, pts) ==
  IF k > Len(p) THEN pts
  ELSE chooseLoop(p, k + 1, distance,
                  IF distanceBetween(p[k], pts[Len(pts)])
                       > distance * distance
                  THEN Append(pts, p[k])
                  ELSE pts)

\* Robot.chooseCarrotPoints on the non-empty path p.
chooseCarrotPoints(p, distance) == chooseLoop(p, 1, distance, << p[1] >>)

\* The branch taken on every tick.
AtEnd_Always(c) == TRUE

\* The branch test with its operands swapped.
AtEnd_Swapped(c) == c + LA_THRESHOLD < Len(path)

\* The range the loop scans from cursor c is range(c, LastInd(c)).
AtEnd(c) == Len(path) < c + LA_THRESHOLD

\* lastInd without the end of the path.
LastInd_NoClamp(c) == c + LA_THRESHOLD

\* lastInd without the window.
LastInd_NoWindow(c) == Len(path) - 1

LastInd(c) == IF AtEnd(c) THEN Len(path) - 1 ELSE c + LA_THRESHOLD

\* The for loop with a waypoint at an equal distance replacing the minimum.
RECURSIVE Scan_LastWins(_, _, _, _)
Scan_LastWins(i, lastInd, pt, best) ==
  IF i >= lastInd THEN best
  ELSE IF i >= Len(path)
  THEN [best EXCEPT !.read = @ \cup {i}, !.raised = TRUE]
  ELSE LET distance == distanceBetween(At(i), pt)
       IN  Scan_LastWins(i + 1, lastInd, pt,
                         IF distance <= best.prevPointDistance
                         THEN [carrotPoint |-> At(i), index |-> i,
                               prevPointDistance |-> distance,
                               read |-> best.read \cup {i},
                               raised |-> FALSE]
                         ELSE [best EXCEPT !.read = @ \cup {i}])

\* The for loop: best is the running minimum, best.read the indices at
\* which the path has been read so far, best.raised whether a read past
\* the end of the list has raised IndexError and ended the loop.
RECURSIVE Scan(_, _, _, _)
Scan(i, lastInd, pt, best) ==
  IF i >= lastInd THEN best
  ELSE IF i >= Len(path)
  THEN [best EXCEPT !.read = @ \cup {i}, !.raised = TRUE]
  ELSE LET distance == distanceBetween(At(i), pt)
       IN  Scan(i + 1, lastInd, pt,
                IF distance < best.prevPointDistance
                THEN [carrotPoint |-> At(i), index |-> i,
                      prevPointDistance |-> distance,
                      read |-> best.read \cup {i},
                      raised |-> FALSE]
                ELSE [best EXCEPT !.read = @ \cup {i}])

\* The scan started at the first waypoint instead of the cursor.
Select_FromStart(c, pt) ==
  Scan(0, LastInd(c), pt,
       [carrotPoint |-> At(c), index |-> c,
        prevPointDistance |-> distanceBetween(At(c), pt),
        read |-> {c}, raised |-> FALSE])

\* The scan seeded with the last waypoint instead of the cursor's.
Select_SeedLast(c, pt) ==
  Scan(c, LastInd(c), pt,
       [carrotPoint |-> path[Len(path)], index |-> Len(path) - 1,
        prevPointDistance |-> distanceBetween(path[Len(path)], pt),
        read |-> {Len(path) - 1}, raised |-> FALSE])

\* Seed and scan of one tick from cursor c with look-ahead point pt.
Select(c, pt) ==
  Scan(c, LastInd(c), pt,
       [carrotPoint |-> At(c), index |-> c,
        prevPointDistance |-> distanceBetween(At(c), pt),
        read |-> {c}, raised |-> FALSE])

\* The inner test with the comparison reversed.
GoalReached_Reversed(px, py) ==
  distanceTo(px, py, path[Len(path)])
    > DISTANCE_THRESHOLD * DISTANCE_THRESHOLD

\* The inner test of the goal check for a robot sampled at (px, py).
GoalReached(px, py) ==
  distanceTo(px, py, path[Len(path)])
    < DISTANCE_THRESHOLD * DISTANCE_THRESHOLD

\* The goal check of a tick that starts at cursor c and samples (px, py).
GoalCheck(c, px, py) == AtEnd(c) /\ GoalReached(px, py)


\* ------------------------------------------------------------- actions
\* The values of point, reads, bearing and angularSpeed are dead once the
\* step that follows their use has run: the model clears them there.

\* Robot(URL, FILENAME), setSpeed(0, 0) and the statements before the loop.
Startup ==
  /\ pc = "start"
  /\ \E s \in PoseResponses, ack \in Statuses :
       LET loaded == Loaded(file)
           posed == loaded /\ s.status = "ok"
           accepted == posed /\ ~SetSpeedRaises(ack)
           entered == accepted /\ variant = "full" /\ Len(file) > 0
           err == IF ~loaded THEN "IOError"
                  ELSE IF ~posed THEN PoseError(s)
                  ELSE IF ~accepted THEN SetSpeedError(ack)
                  ELSE IF variant = "final" THEN "NameError: prevPointInd"
                  ELSE IF Len(file) = 0 THEN "IndexError"
                  ELSE "none"
       IN  /\ pc' = IF entered THEN "loop" ELSE "crashed"
           /\ error' = err
           /\ path' = IF loaded THEN file ELSE path
           /\ poseKnown' = posed
           /\ x' = IF posed THEN s.Position.X ELSE x
           /\ y' = IF posed THEN s.Position.Y ELSE y
           /\ heading' = IF posed THEN toHeading(s.Orientation) ELSE heading
           /\ orientation' = IF posed THEN s.Orientation ELSE orientation
           /\ carrotPoint' = IF entered THEN file[1] ELSE carrotPoint
           /\ points' =
                IF entered
                THEN chooseCarrotPoints(file, DISTANCE_BETWEEN_CARROT_POINTS)
                ELSE points
  /\ UNCHANGED << quat, pointInd, result, reported, variant, file,
                  LA_THRESHOLD, sampled, prevPointInd,
                  atDestination, point, tickStart, reads, bearing,
                  angularSpeed, linearSpeed, sentAfterGoal >>

\* One tick of the loop up to the cursor update: look-ahead point, scan
\* range, goal check, scan.  A read past the end of the path ends the run
\* with IndexError.
SelectCarrot ==
  /\ pc = "loop"
  /\ LET c == prevPointInd
         pt == lookAhead(x, y, heading, LOOK_AHEAD_DISTANCE)
         sel == Select(c, pt)
     IN  /\ point' = pt
         /\ tickStart' = c
         /\ \/ /\ AtEnd(c)
               /\ \E s \in PoseResponses :
                    IF s.status = "ok"
                    THEN /\ x' = s.Position.X
                         /\ y' = s.Position.Y
                         /\ heading' = toHeading(s.Orientation)
                         /\ orientation' = s.Orientation
                         /\ sampled' = TRUE
                         /\ atDestination' =
                              GoalCheck(c, s.Position.X, s.Position.Y)
                         /\ reads' = {Len(path) - 1} \cup sel.read
                         /\ carrotPoint' = sel.carrotPoint
                         /\ prevPointInd' =
                              IF sel.raised THEN c ELSE sel.index
                         /\ pc' = IF sel.raised THEN "crashed" ELSE "goto"
                         /\ error' =
                              IF sel.raised THEN "IndexError" ELSE error
                    ELSE /\ reads' = {c, Len(path) - 1}
                         /\ pc' = "crashed"
                         /\ error' = PoseError(s)
                         /\ UNCHANGED << x, y, heading, orientation,
                                         sampled, atDestination,
                                         carrotPoint, prevPointInd >>
            \/ /\ ~AtEnd(c)
               /\ reads' = sel.read
               /\ carrotPoint' = sel.carrotPoint
               /\ prevPointInd' = IF sel.raised THEN c ELSE sel.index
               /\ pc' = IF sel.raised THEN "crashed" ELSE "goto"
               /\ error' = IF sel.raised THEN "IndexError" ELSE error
               /\ UNCHANGED << x, y, heading, orientation, sampled,
                               atDestination >>
  /\ UNCHANGED << quat, waypoint, variant, file, LA_THRESHOLD, path, poseKnown, bearing,
                  angularSpeed, linearSpeed, sentAfterGoal >>

\* goToPoint, first part: updateAttributes() and getBearing(coordinates).
GoToPointBearing ==
  /\ pc = "goto"
  /\ point' = Origin
  /\ reads' = {}
  /\ \E s \in PoseResponses :
       IF s.status = "ok"
       THEN /\ x' = s.Position.X
            /\ y' = s.Position.Y
            /\ heading' = toHeading(s.Orientation)
            /\ orientation' = s.Orientation
            /\ sampled' = TRUE
            /\ bearing' = getBearing(s.Position.X, s.Position.Y,
                                     toHeading(s.Orientation), carrotPoint)
            /\ pc' = "distance"
            /\ error' = error
       ELSE /\ pc' = "crashed"
            /\ error' = PoseError(s)
            /\ UNCHANGED << x, y, heading, orientation, sampled, bearing >>
  /\ UNCHANGED << quat, waypoint, variant, file, LA_THRESHOLD, path, poseKnown, prevPointInd,
                  atDestination, carrotPoint, tickStart, angularSpeed,
                  linearSpeed, sentAfterGoal >>

\* goToPoint, second part: distanceTo(coordinates) and the angular speed.
GoToPointDistance ==
  /\ pc = "distance"
  /\ \E s \in PoseResponses :
       IF s.status = "ok"
       THEN /\ x' = s.Position.X
            /\ y' = s.Position.Y
            /\ heading' = toHeading(s.Orientation)
            /\ orientation' = s.Orientation
            /\ sampled' = TRUE
            /\ angularSpeed' = Command(bearing).angular
            /\ linearSpeed' = Command(bearing).linear
            /\ pc' = "send"
            /\ error' = error
       ELSE /\ pc' = "crashed"
            /\ error' = PoseError(s)
            /\ UNCHANGED << x, y, heading, orientation, sampled,
                            angularSpeed, linearSpeed >>
  /\ UNCHANGED << quat, waypoint, variant, file, LA_THRESHOLD, path, poseKnown, prevPointInd,
                  atDestination, carrotPoint, point, tickStart, reads,
                  bearing, sentAfterGoal >>

\* goToPoint moving the cursor to the next waypoint once the command is
\* sent.
GoToPointSetSpeed_Advances ==
  /\ pc = "send"
  /\ sentAfterGoal' =
       IF atDestination
       THEN Append(sentAfterGoal, [angular |-> angularSpeed,
                                   linear |-> linearSpeed])
       ELSE sentAfterGoal
  /\ bearing' = 0
  /\ angularSpeed' = 0
  /\ linearSpeed' = 0
  /\ sampled' = FALSE
  /\ \E ack \in Statuses :
       /\ pc' = IF SetSpeedRaises(ack) THEN "crashed"
                ELSE IF atDestination THEN "after"
                ELSE "loop"
       /\ error' = IF SetSpeedRaises(ack) THEN SetSpeedError(ack) ELSE error
  /\ tickStart' = prevPointInd
  /\ prevPointInd' = IF prevPointInd + 1 < Len(path)
                     THEN prevPointInd + 1 ELSE prevPointInd
  /\ UNCHANGED << quat, waypoint, variant, file, LA_THRESHOLD, path, poseKnown, x, y, heading,
                  orientation, atDestination, carrotPoint,
                  point, reads >>

\* goToPoint, last part: setSpeed(angularSpeed, GOTOPOINT_LIN_SPEED), the
\* return to the loop and the loop test.  The tick ends here.
GoToPointSetSpeed ==
  /\ pc = "send"
  /\ sentAfterGoal' =
       IF atDestination
       THEN Append(sentAfterGoal, [angular |-> angularSpeed,
                                   linear |-> linearSpeed])
       ELSE sentAfterGoal
  /\ bearing' = 0
  /\ angularSpeed' = 0
  /\ linearSpeed' = 0
  /\ sampled' = FALSE
  /\ \E ack \in Statuses :
       /\ pc' = IF SetSpeedRaises(ack) THEN "crashed"
                ELSE IF atDestination THEN "after"
                ELSE "loop"
       /\ error' = IF SetSpeedRaises(ack) THEN SetSpeedError(ack) ELSE error
  /\ tickStart' = prevPointInd
  /\ UNCHANGED << quat, waypoint, variant, file, LA_THRESHOLD, path, poseKnown, x, y, heading,
                  orientation, prevPointInd, atDestination, carrotPoint,
                  point, reads >>

\* The stop command issued without leaving the position after the loop.
StopRobot_Repeats ==
  /\ pc = "after"
  /\ Len(sentAfterGoal) < 4
  /\ sentAfterGoal' = Append(sentAfterGoal, StopCmd)
  /\ UNCHANGED << quat, waypoint, variant, file, LA_THRESHOLD, pc, error, path, poseKnown,
                  x, y, heading, orientation, sampled, prevPointInd,
                  atDestination, carrotPoint, point, tickStart, reads,
                  bearing, angularSpeed, linearSpeed >>

\* r1.setSpeed(0, 0) after the loop.
StopRobot ==
  /\ pc = "after"
  /\ sentAfterGoal' = Append(sentAfterGoal, StopCmd)
  /\ \E ack \in Statuses :
       /\ pc' = IF SetSpeedRaises(ack) THEN "crashed" ELSE "done"
       /\ error' = IF SetSpeedRaises(ack) THEN SetSpeedError(ack) ELSE error
  /\ UNCHANGED << quat, waypoint, variant, file, LA_THRESHOLD, path, poseKnown, x, y, heading,
                  orientation, sampled, prevPointInd, atDestination,
                  carrotPoint, point, tickStart, reads, bearing, angularSpeed,
                  linearSpeed >>

Next ==
  \/ Startup
  \/ SelectCarrot
  \/ GoToPointBearing
  \/ GoToPointDistance
  \/ GoToPointSetSpeed
  \/ StopRobot

Spec == Init /\ [][Next]_vars

\* The loop under the scheduling of a sequential program: a step that
\* can be taken is taken.
LiveSpec == Spec /\ WF_vars(Next)

\* ------------------------------------- lokarriaclass-carrot.py
\* The earlier program, which drives to the carrot points one after the
\* other.  Its constants differ from those of the loop above.
\* BEARING_THRESHOLD is 0.1 rad in thousandths of pi/4; the speeds are in
\* rad/s and in 0.1 m/s.
BEARING_THRESHOLD == 127
WAYPOINT_DISTANCE_THRESHOLD == 7
WAYPOINT_ANG_SPEED == 1
WAYPOINT_LIN_SPEED == 7

\* updateAttributes losing the stored pose when the sample fails.
updateAttributes_Forgets(s) ==
  IF s.status = "ok"
  THEN [known |-> TRUE, x |-> s.Position.X, y |-> s.Position.Y,
        heading |-> toHeading(s.Orientation),
        orientation |-> s.Orientation, reported |-> FALSE]
  ELSE [known |-> poseKnown, x |-> 0, y |-> 0, heading |-> 2 * pi,
        orientation |-> NoRotation, reported |-> TRUE]

\* Robot.updateAttributes of lokarriaclass-carrot.py on the answer s: the
\* attributes after the call, and whether the message of the except branch
\* was printed.  Both failures raise before the first assignment: the GET
\* itself (socket.error), or pose['Pose'] on the UnexpectedResponse that
\* getPose returned.
updateAttributes(s) ==
  IF s.status = "ok"
  THEN [known |-> TRUE, x |-> s.Position.X, y |-> s.Position.Y,
        heading |-> toHeading(s.Orientation),
        orientation |-> s.Orientation, reported |-> FALSE]
  ELSE [known |-> poseKnown, x |-> x, y |-> y, heading |-> heading,
        orientation |-> orientation, reported |-> TRUE]

\* The attributes of the robot after updateAttributes on the answer s.
Sampling(s) ==
  LET u == updateAttributes(s)
  IN  /\ poseKnown' = u.known
      /\ x' = u.x
      /\ y' = u.y
      /\ heading' = u.heading
      /\ orientation' = u.orientation
      /\ reported' = u.reported

\* The coordinates goToPoint has been called with.
coordinates == points[pointInd + 1]

\* The angular speed goToPoint chooses for the bearing b.
Turn(b) ==
  IF b * 1000 > BEARING_THRESHOLD THEN WAYPOINT_ANG_SPEED
  ELSE IF b * 1000 < -BEARING_THRESHOLD THEN -WAYPOINT_ANG_SPEED
  ELSE 0

CarrotInit ==
  /\ variant = "carrot"
  /\ file \in PathFiles
  /\ LA_THRESHOLD = 0
  /\ pc = "start"
  /\ error = "none"
  /\ path = << >>
  /\ poseKnown = FALSE
  /\ x = 0
  /\ y = 0
  /\ heading = 0
  /\ orientation = NoRotation
  /\ sampled = FALSE
  /\ prevPointInd = 0
  /\ atDestination = FALSE
  /\ carrotPoint = Origin
  /\ point = Origin
  /\ tickStart = 0
  /\ reads = {}
  /\ bearing = 0
  /\ angularSpeed = 0
  /\ linearSpeed = 0
  /\ sentAfterGoal = << >>
  /\ left = NoRotation
  /\ right = NoRotation
  /\ product = NoRotation
  /\ rotated = [X |-> 0, Y |-> 0, Z |-> 0]
  /\ points = << >>
  /\ pointInd = 0
  /\ result = FALSE
  /\ reported = FALSE

\* Robot.__init__: the path is loaded, then the pose is sampled.
Construct ==
  /\ pc = "start"
  /\ IF Loaded(file)
     THEN /\ pc' = "made"
          /\ path' = file
          /\ \E s \in PoseResponses : Sampling(s)
          /\ UNCHANGED error
     ELSE /\ pc' = "crashed"
          /\ error' = "IOError"
          /\ UNCHANGED << path, poseKnown, x, y, heading, orientation,
                          reported >>
  /\ UNCHANGED << quat, points, pointInd, result, variant, file,
                  LA_THRESHOLD, sampled, prevPointInd, atDestination,
                  carrotPoint, point, tickStart, reads, bearing,
                  angularSpeed, linearSpeed, sentAfterGoal >>

\* The main program up to the first goToPoint: setSpeed(0.1, 0), the print
\* of r1.x, r1.y and r1.heading (attributes that exist only once a sample
\* has succeeded), chooseCarrotPoints, and the entry of goToPoint for the
\* first carrot point.
Introduce ==
  /\ pc = "made"
  /\ \E ack \in Statuses :
       LET err == IF SetSpeedRaises(ack) THEN SetSpeedError(ack)
                  ELSE IF ~poseKnown THEN "AttributeError"
                  ELSE IF Len(path) = 0 THEN "IndexError"
                  ELSE "none"
       IN  /\ pc' = IF err = "none" THEN "wp_update" ELSE "crashed"
           /\ error' = err
           /\ points' =
                IF err = "none"
                THEN chooseCarrotPoints(path, DISTANCE_BETWEEN_CARROT_POINTS)
                ELSE points
           /\ result' = (err = "none")
  /\ UNCHANGED << quat, pointInd, reported, variant, file, LA_THRESHOLD,
                  path, poseKnown, x, y, heading, orientation, sampled,
                  prevPointInd, atDestination, carrotPoint, point,
                  tickStart, reads, bearing, angularSpeed, linearSpeed,
                  sentAfterGoal >>

\* goToPoint: updateAttributes, then getBearing on the stored pose.
WaypointBearing ==
  /\ pc = "wp_update"
  /\ \E s \in PoseResponses : Sampling(s)
  /\ bearing' = getBearing(x', y', heading', coordinates)
  /\ pc' = "wp_distance"
  /\ UNCHANGED << quat, points, pointInd, result, variant, file,
                  LA_THRESHOLD, error, path, sampled, prevPointInd,
                  atDestination, carrotPoint, point, tickStart, reads,
                  angularSpeed, linearSpeed, sentAfterGoal >>

\* goToPoint: distanceTo (with its own updateAttributes), the choice of
\* the angular speed and of the loop flag.
WaypointDistance ==
  /\ pc = "wp_distance"
  /\ \E s \in PoseResponses : Sampling(s)
  /\ angularSpeed' = Turn(bearing)
  /\ linearSpeed' = WAYPOINT_LIN_SPEED
  /\ result' = (distanceTo(x', y', coordinates)
                  > WAYPOINT_DISTANCE_THRESHOLD * WAYPOINT_DISTANCE_THRESHOLD)
  /\ bearing' = 0
  /\ pc' = "wp_send"
  /\ UNCHANGED << quat, points, pointInd, variant, file, LA_THRESHOLD,
                  error, path, sampled, prevPointInd, atDestination,
                  carrotPoint, point, tickStart, reads, sentAfterGoal >>

\* goToPoint: setSpeed(angularSpeed, GOTOPOINT_LIN_SPEED); then the while
\* loop again, the next carrot point, or the end of the for loop.
WaypointSetSpeed ==
  /\ pc = "wp_send"
  /\ \E ack \in Statuses :
       LET raises == SetSpeedRaises(ack)
           more == pointInd + 1 < Len(points)
       IN  /\ pc' = IF raises THEN "crashed"
                    ELSE IF result \/ more THEN "wp_update"
                    ELSE "wp_after"
           /\ error' = IF raises THEN SetSpeedError(ack) ELSE error
           /\ pointInd' = IF ~raises /\ ~result /\ more
                          THEN pointInd + 1 ELSE pointInd
           /\ result' = IF ~raises /\ ~result /\ more THEN TRUE ELSE result
  /\ angularSpeed' = 0
  /\ linearSpeed' = 0
  /\ UNCHANGED << quat, points, reported, variant, file, LA_THRESHOLD, path,
                  poseKnown, x, y, heading, orientation, sampled,
                  prevPointInd, atDestination, carrotPoint, point,
                  tickStart, reads, bearing, sentAfterGoal >>

\* setSpeed(0, 0) after the last carrot point.
WaypointStop ==
  /\ pc = "wp_after"
  /\ \E ack \in Statuses :
       /\ pc' = IF SetSpeedRaises(ack) THEN "crashed" ELSE "wp_done"
       /\ error' = IF SetSpeedRaises(ack) THEN SetSpeedError(ack) ELSE error
  /\ UNCHANGED << quat, waypoint, variant, file, LA_THRESHOLD, path,
                  poseKnown, x, y, heading, orientation, sampled,
                  prevPointInd, atDestination, carrotPoint, point,
                  tickStart, reads, bearing, angularSpeed, linearSpeed,
                  sentAfterGoal >>

CarrotNext ==
  \/ Construct
  \/ Introduce
  \/ WaypointBearing
  \/ WaypointDistance
  \/ WaypointSetSpeed
  \/ WaypointStop

CarrotSpec == CarrotInit /\ [][CarrotNext]_vars

\* ------------------------------------------- the quaternion functions
\* qmult and rotate applied to every pair of operands of Quaternions, the
\* second operand giving rotate its vector.
QuatInit ==
  /\ variant = "full"
  /\ file = << >>
  /\ LA_THRESHOLD = 0
  /\ pc = "operands"
  /\ error = "none"
  /\ path = << >>
  /\ poseKnown = FALSE
  /\ x = 0
  /\ y = 0
  /\ heading = 0
  /\ orientation = NoRotation
  /\ sampled = FALSE
  /\ prevPointInd = 0
  /\ atDestination = FALSE
  /\ carrotPoint = Origin
  /\ point = Origin
  /\ tickStart = 0
  /\ reads = {}
  /\ bearing = 0
  /\ angularSpeed = 0
  /\ linearSpeed = 0
  /\ sentAfterGoal = << >>
  /\ left \in Quaternions
  /\ right \in Quaternions
  /\ product = NoRotation
  /\ rotated = [X |-> 0, Y |-> 0, Z |-> 0]
  /\ points = << >>
  /\ pointInd = 0
  /\ result = FALSE
  /\ reported = FALSE

Multiply ==
  /\ pc = "operands"
  /\ product' = qmult(left, right)
  /\ pc' = "multiplied"
  /\ UNCHANGED << variant, file, LA_THRESHOLD, error, path, poseKnown, x, y,
                  heading, orientation, sampled, prevPointInd, atDestination,
                  carrotPoint, point, tickStart, reads, bearing, angularSpeed,
                  linearSpeed, sentAfterGoal, left, right, rotated,
                  waypoint >>

Rotate ==
  /\ pc = "multiplied"
  /\ rotated' = rotate(left, vector(right))
  /\ pc' = "rotated"
  /\ UNCHANGED << variant, file, LA_THRESHOLD, error, path, poseKnown, x, y,
                  heading, orientation, sampled, prevPointInd, atDestination,
                  carrotPoint, point, tickStart, reads, bearing, angularSpeed,
                  linearSpeed, sentAfterGoal, left, right, product,
                  waypoint >>

QuatNext ==
  \/ Multiply
  \/ Rotate

QuatSpec == QuatInit /\ [][QuatNext]_vars

\* ------------------------------------------------------------- claims
\* The stored pose is within DISTANCE_THRESHOLD of the last waypoint.
Near ==
  /\ poseKnown
  /\ Len(path) > 0
  /\ LET last == path[Len(path)]
     IN  (last.X - x) * (last.X - x) + (last.Y - y) * (last.Y - y)
           < DISTANCE_THRESHOLD * DISTANCE_THRESHOLD

\* The stop command has been issued after the loop.
StopCount ==
  Cardinality({ i \in DOMAIN sentAfterGoal : sentAfterGoal[i] = StopCmd })

\* C1: across the ticks the search cursor never decreases, and it never
\* exceeds N-1 where N is the length of the path.
C1_CursorMonotone ==
  [][ /\ prevPointInd' >= prevPointInd
      /\ Len(path') > 0 => prevPointInd' <= Len(path') - 1 ]_vars

\* A tick has moved the cursor forward, onto the last waypoint.
C1_Witness ==
  /\ pc = "goto"
  /\ tickStart < prevPointInd
  /\ prevPointInd = Len(path) - 1

\* C2: after the selection of a tick the carrot is a waypoint of the range
\* [cursor, min(cursor + searchWindow, N-1)], both ends included, at the
\* least distance from the look-ahead point over that range, and the new
\* cursor is its index.
C2_CarrotNearestInclusive ==
  pc = "goto" =>
    LET last == IF tickStart + LA_THRESHOLD < Len(path) - 1
                THEN tickStart + LA_THRESHOLD ELSE Len(path) - 1
    IN  /\ prevPointInd \in tickStart..last
        /\ carrotPoint = At(prevPointInd)
        /\ \A i \in tickStart..last :
             distanceBetween(carrotPoint, point)
               <= distanceBetween(At(i), point)

\* C3: the selection of a tick reads the path only at indices of
\* [cursor, cursor + searchWindow], cursor being the cursor at the start of
\* the tick.
C3_WindowBound ==
  reads \subseteq tickStart..(tickStart + LA_THRESHOLD)

\* A tick that started beyond index 0 has read several waypoints, the last
\* waypoint (for the goal check) among them.
C3_Witness ==
  /\ pc = "goto"
  /\ tickStart > 0
  /\ (Len(path) - 1) \in reads
  /\ Cardinality(reads) >= 2

\* C4: a tick with cursor + searchWindow >= N-1 and the robot strictly
\* within distanceThreshold of the last waypoint signals atGoal.
C4_GoalWhenWindowReachesEnd ==
  ( /\ pc = "goto"
    /\ tickStart + LA_THRESHOLD >= Len(path) - 1
    /\ Near )
  => atDestination

C6_OnlyStopAfterGoal ==
  \A i \in DOMAIN sentAfterGoal : sentAfterGoal[i] = StopCmd

\* C7: after the loop the stop command (0,0) is issued exactly once, as the
\* last command, and once it has been issued nothing changes any more: no
\* further command, no further step.
C7_StopOnce ==
  /\ [](pc = "done" =>
          /\ StopCount = 1
          /\ sentAfterGoal[Len(sentAfterGoal)] = StopCmd)
  /\ [][StopCount >= 1 => UNCHANGED vars]_vars

\* The run has ended with the stop command issued.
C7_Witness ==
  /\ pc = "done"
  /\ StopCount = 1
  /\ atDestination

\* C8: if the goal check reports atGoal for a pose at cursor c, it reports
\* atGoal for the same pose at every cursor c2 >= c.
C8_GoalCheckStable ==
  Len(path) > 0 =>
    \A c \in 0..(Len(path) - 1) :
      \A c2 \in c..(Len(path) - 1) :
        \A p \in RobotPositions :
          GoalCheck(c, p.X, p.Y) => GoalCheck(c2, p.X, p.Y)

\* A tick has signalled atGoal and moved the cursor: the goal check holds
\* for the sampled pose at the old and at the new cursor.
C8_Witness ==
  /\ pc = "goto"
  /\ atDestination
  /\ tickStart < prevPointInd
  /\ GoalCheck(tickStart, x, y)
  /\ GoalCheck(prevPointInd, x, y)

\* C9 as stated: the bearing getBearing computes is in (-pi, pi].
C9_BearingHalfOpen ==
  pc \in {"distance", "send"} => (bearing > -pi /\ bearing <= pi)

\* C9 amended: the bearing getBearing computes is in [-pi, pi].
C9_BearingClosed ==
  pc \in {"distance", "send"} => (bearing >= -pi /\ bearing <= pi)

\* getBearing has returned -pi.
C9_Witness ==
  /\ pc = "distance"
  /\ bearing = -pi

\* C10 as stated: the stored heading is in [0, 2*pi).
C10_HeadingHalfOpenLow ==
  poseKnown => (heading >= 0 /\ heading < 2 * pi)

\* C10 amended: the stored heading is in (0, 2*pi].
C10_HeadingHalfOpenHigh ==
  poseKnown => (heading > 0 /\ heading <= 2 * pi)

\* A pose sample has stored the heading 2*pi.
C10_Witness ==
  /\ poseKnown
  /\ heading = 2 * pi

\* The yaw angles of the orientations the localization service reports.
YawAngles == {0, 2, 4, 6}

\* The quaternion of a pure yaw by theta, W = cos(theta/2), Z = sin(theta/2)
\* and X = Y = 0, scaled by 1 or sqrt(2) to integer components.
YawQuaternion(theta) ==
  CASE theta = 0 -> [W |-> 1, X |-> 0, Y |-> 0, Z |-> 0]
    [] theta = 2 -> [W |-> 1, X |-> 0, Y |-> 0, Z |-> 1]
    [] theta = 4 -> [W |-> 0, X |-> 0, Y |-> 0, Z |-> 1]
    [] theta = 6 -> [W |-> -1, X |-> 0, Y |-> 0, Z |-> 1]

\* theta reduced into (0, 2*pi].
Reduced(theta) == ((theta - 1) % (2 * pi)) + 1

\* C11: for a quaternion that is a pure yaw by theta, toHeading returns
\* theta reduced into (0, 2*pi]; theta = 0 yields 2*pi.  Checked on the
\* heading stored from each pose read.
C11_YawHeading ==
  poseKnown =>
    \E theta \in YawAngles :
      /\ orientation = YawQuaternion(theta)
      /\ heading = Reduced(theta)

\* A pose with the yaw 0 has been read and stored with the heading 2*pi.
C11_Witness ==
  /\ poseKnown
  /\ orientation = YawQuaternion(0)
  /\ heading = Reduced(0)
  /\ Reduced(0) = 2 * pi

\* The ratio 1 in the units of coefficient (10^-6), which are also the
\* units of angularSpeed per rad/s.
AngularUnit == 1000000

\* C12: the angular speed of every command goToPoint issues has a magnitude
\* of at most GOTOPOINT_ANG_SPEED, whatever the bearing.
C12_AngularSpeedBounded ==
  pc = "send" =>
    /\ angularSpeed <= GOTOPOINT_ANG_SPEED * AngularUnit
    /\ angularSpeed >= -(GOTOPOINT_ANG_SPEED * AngularUnit)

\* goToPoint is about to issue the command of the bearing -pi, whose
\* angular speed is the largest in magnitude.
C12_Witness ==
  /\ pc = "send"
  /\ bearing = -pi
  /\ angularSpeed = -(coefficient(pi) * GOTOPOINT_ANG_SPEED)
  /\ \A b \in (-pi)..pi :
       coefficient(b) <= coefficient(pi) /\ coefficient(b) >= 0

C14_PoseFailureTolerated ==
  [][ (pc \in {"loop", "goto", "distance"}) => pc' # "crashed" ]_vars

\* C15: a velocity command answered with a non-success status does not end
\* the run: no setSpeed call (before, in or after the loop) raises on the
\* use of UnexpectedResponse.
C15_RejectionTolerated ==
  [][ ( /\ pc \in {"start", "send", "after"}
        /\ poseKnown'
        /\ pc' = "crashed" )
      => error' # "NameError: UnexpectedResponse" ]_vars

\* C16: with a path file that cannot be loaded, or an empty path, the run
\* never enters the loop: no carrot is selected, no pose is read in a tick
\* and goToPoint issues no command.
C16_NoLoopWithoutPath ==
  (file = NoFile \/ file = << >>) =>
    /\ pc \in {"start", "crashed"}
    /\ carrotPoint = Origin
    /\ prevPointInd = 0
    /\ ~sampled
    /\ linearSpeed = 0
    /\ sentAfterGoal = << >>

\* The run has been aborted on the first point of an empty path, after the
\* pose was read and the initial setSpeed(0, 0) sent.
C16_Witness ==
  /\ file = << >>
  /\ pc = "crashed"
  /\ error = "IndexError"
  /\ poseKnown
  /\ carrotPoint = Origin

\* C17: the look-ahead point of a tick is computed from a pose read during
\* that same tick: when the selection of a tick starts, a pose has been
\* read in the tick.
C17_LookAheadFromTickSample ==
  [][ (pc = "loop" /\ pc' # "loop") => sampled ]_vars

\* C18: after a start-up with a loadable, non-empty path, the pose read and
\* no failed exchange with the server, the loop is entered with the cursor
\* 0 and atDestination False.
C18_LoopEnteredAtZero ==
  [][ ( /\ pc = "start"
        /\ file # NoFile
        /\ Len(file) > 0
        /\ poseKnown'
        /\ error' \notin {"socket.error", "NameError: UnexpectedResponse"} )
      => ( /\ pc' = "loop"
           /\ prevPointInd' = 0
           /\ ~atDestination' ) ]_vars

\* The indices of [c, min(c + searchWindow, N-1)] whose waypoints are at
\* the least distance from the look-ahead point pt.
Nearest(c, pt) ==
  LET last == IF c + LA_THRESHOLD < Len(path) - 1
              THEN c + LA_THRESHOLD ELSE Len(path) - 1
  IN  { i \in c..last :
          \A j \in c..last :
            distanceBetween(At(i), pt) <= distanceBetween(At(j), pt) }

\* C19: when several waypoints of the scan range are at the same minimal
\* distance from the look-ahead point, the carrot is the one of them with
\* the lowest index.
C19_TieLowestIndex ==
  (pc = "goto" /\ Cardinality(Nearest(tickStart, point)) >= 2) =>
    /\ prevPointInd \in Nearest(tickStart, point)
    /\ \A i \in Nearest(tickStart, point) : prevPointInd <= i
    /\ carrotPoint = At(prevPointInd)

\* A tick has moved the cursor onto the first of two waypoints at the same
\* minimal distance.
C19_Witness ==
  /\ pc = "goto"
  /\ Cardinality(Nearest(tickStart, point)) >= 2
  /\ tickStart < prevPointInd
  /\ prevPointInd + 1 \in Nearest(tickStart, point)

\* C20: with a one-waypoint path or a search window of 0 the tick yields
\* the carrot path[cursor] and leaves the cursor where it was.
C20_DegenerateWindow ==
  (pc = "goto" /\ (Len(path) = 1 \/ LA_THRESHOLD = 0)) =>
    /\ prevPointInd = tickStart
    /\ carrotPoint = At(tickStart)

\* A tick with the search window 0 has kept the cursor's waypoint as the
\* carrot although the next waypoint is nearer to the look-ahead point.
C20_Witness ==
  /\ pc = "goto"
  /\ LA_THRESHOLD = 0
  /\ Len(path) >= 2
  /\ prevPointInd = tickStart
  /\ carrotPoint = At(tickStart)
  /\ distanceBetween(At(tickStart + 1), point)
       < distanceBetween(At(tickStart), point)

\* C21: the angular speed goToPoint commands has the sign of the bearing:
\* positive for a bearing > 0, negative for a bearing < 0, zero for 0.
C21_AngularSign ==
  pc = "send" =>
    /\ bearing > 0 => angularSpeed > 0
    /\ bearing < 0 => angularSpeed < 0
    /\ bearing = 0 => angularSpeed = 0

\* goToPoint is about to command a clockwise turn for a target on the
\* right of the robot.
C21_Witness ==
  /\ pc = "send"
  /\ bearing = -1
  /\ angularSpeed < 0

\* C22: lookAhead(d) on the stored pose (x, y, h) is the point
\* (x + d*cos h, y + d*sin h) at distance d in the heading direction; for
\* the robot at (0,0) facing +X (h = 0) and d = 1 it is (1, 0).
C22_LookAheadProjection ==
  [][ (pc = "loop" /\ pc' = "goto") =>
        /\ point' = [X |-> x + LOOK_AHEAD_DISTANCE * cos(heading),
                     Y |-> y + LOOK_AHEAD_DISTANCE * sin(heading)]
        /\ lookAhead(0, 0, 0, 1) = [X |-> 1, Y |-> 0] ]_vars

\* A tick without a pose read of its own has projected the point from the
\* robot at (5, 0) facing +Y.
C22_Witness ==
  /\ pc = "goto"
  /\ ~sampled
  /\ x = 5
  /\ y = 0
  /\ heading = pi \div 2
  /\ point = [X |-> 5, Y |-> LOOK_AHEAD_DISTANCE]

\* C23: a tick sets atDestination only if cursor + searchWindow >= N-1
\* held at its start.
C23_GoalOnlyAtEnd ==
  [][ (~atDestination /\ atDestination') =>
        prevPointInd + LA_THRESHOLD >= Len(path) - 1 ]_vars

\* atDestination has been set beyond the first waypoint of a path that
\* starts and ends at the same place, for which no goal check is made at
\* cursor 0.
C23_Witness ==
  /\ pc = "goto"
  /\ atDestination
  /\ tickStart > 0
  /\ Len(path) = 3
  /\ path[1] = path[3]
  /\ path[2] # path[1]
  /\ LA_THRESHOLD <= Len(path)

\* C24: the loop is left only through the goal check: the position after
\* the loop is reached and the stop command issued only with atDestination
\* set, atDestination is set only in a tick whose pose read was within
\* DISTANCE_THRESHOLD of the last waypoint, and a tick that ends without
\* atDestination and without a failed exchange is followed by a tick.
C24_LeavesOnlyThroughGoal ==
  [][ /\ (pc' \in {"after", "done"}) => atDestination'
      /\ (Len(sentAfterGoal') > Len(sentAfterGoal)) => atDestination
      /\ (~atDestination /\ atDestination') =>
           (path[Len(path)].X - x') * (path[Len(path)].X - x')
             + (path[Len(path)].Y - y') * (path[Len(path)].Y - y')
               < DISTANCE_THRESHOLD * DISTANCE_THRESHOLD
      /\ (pc = "send" /\ ~atDestination /\ pc' # "crashed") => pc' = "loop"
    ]_vars

\* The run has ended through the goal check, the robot having since been
\* read away from the last waypoint.
C24_Witness ==
  /\ pc = "done"
  /\ atDestination
  /\ StopCount = 1
  /\ ~Near

\* C25: goToPoint and the goal check leave the cursor and the path as they
\* are: no step after start-up changes the path, no step of goToPoint or
\* after the loop changes the cursor, a failed goal check leaves the
\* cursor, and the cursor a tick writes is the index its selection yields.
C25_CursorAndPathFrame ==
  [][ /\ (pc # "start") => path' = path
      /\ (pc \in {"goto", "distance", "send", "after"}) =>
           prevPointInd' = prevPointInd
      /\ (pc = "loop" /\ pc' = "crashed") => prevPointInd' = prevPointInd
      /\ (pc = "loop" /\ pc' = "goto") =>
           prevPointInd' = Select(prevPointInd, point').index
    ]_vars

\* A tick that moved the cursor has run goToPoint to its end: the cursor
\* and the path are those the selection left.
C25_Witness ==
  /\ pc = "loop"
  /\ prevPointInd > 0
  /\ tickStart = prevPointInd
  /\ path = file
  /\ carrotPoint = At(prevPointInd)

\* C27: every path index a tick reads (the seed, the scanned indices and
\* the last waypoint of the goal check) lies in 0..N-1, and no tick ends in
\* the IndexError of a read past the end of the path.
C27_ReadsInsidePath ==
  /\ reads \subseteq 0..(Len(path) - 1)
  /\ Len(path) > 0 => error # "IndexError"

\* A tick whose window ends exactly at the end of the path has scanned up
\* to the last waypoint.
C27_Witness ==
  /\ pc = "goto"
  /\ Len(path) >= 2
  /\ tickStart + LA_THRESHOLD = Len(path)
  /\ reads = tickStart..(Len(path) - 1)

\* The Hamilton product in scalar-vector form:
\* (a, u)(b, v) = (a*b - u.v, a*v + b*u + u x v).
Dot(u, v) == u.X * v.X + u.Y * v.Y + u.Z * v.Z

Cross(u, v) ==
  [X |-> u.Y * v.Z - u.Z * v.Y,
   Y |-> u.Z * v.X - u.X * v.Z,
   Z |-> u.X * v.Y - u.Y * v.X]

Hamilton(a, b) ==
  LET u == [X |-> a.X, Y |-> a.Y, Z |-> a.Z]
      v == [X |-> b.X, Y |-> b.Y, Z |-> b.Z]
      c == Cross(u, v)
  IN  [W |-> a.W * b.W - Dot(u, v),
       X |-> a.W * v.X + b.W * u.X + c.X,
       Y |-> a.W * v.Y + b.W * u.Y + c.Y,
       Z |-> a.W * v.Z + b.W * u.Z + c.Z]

\* The units i, j, k and the opposite of a quaternion.
QI == [W |-> 0, X |-> 1, Y |-> 0, Z |-> 0]

QJ == [W |-> 0, X |-> 0, Y |-> 1, Z |-> 0]

QK == [W |-> 0, X |-> 0, Y |-> 0, Z |-> 1]

Opposite(q) == [W |-> -q.W, X |-> -q.X, Y |-> -q.Y, Z |-> -q.Z]

\* C26: qmult is the Hamilton product on (W, X, Y, Z) for all operands with
\* components of the bounded integer set, i*j = k while j*i = -k, and
\* rotate(q, v) is the vector part of q * (0, v) * conjugate(q).
C26_HamiltonProduct ==
  /\ pc \in {"multiplied", "rotated"} => product = Hamilton(left, right)
  /\ (pc = "multiplied" /\ left = QI /\ right = QJ) => product = QK
  /\ (pc = "multiplied" /\ left = QJ /\ right = QI) => product = Opposite(QK)
  /\ pc = "rotated" =>
       LET sandwich ==
             Hamilton(Hamilton(left, [right EXCEPT !.W = 0]),
                      [W |-> left.W, X |-> -left.X,
                       Y |-> -left.Y, Z |-> -left.Z])
       IN  rotated = [X |-> sandwich.X, Y |-> sandwich.Y, Z |-> sandwich.Z]

\* j and i have been multiplied to -k, which is not i*j, and the vector of
\* i rotated by j to its opposite.
C26_Witness ==
  /\ pc = "rotated"
  /\ left = QJ
  /\ right = QI
  /\ product = Opposite(QK)
  /\ product # Hamilton(right, left)
  /\ rotated = [X |-> -1, Y |-> 0, Z |-> 0]

\* The k-th smallest element of the set S of path positions.
Kth(S, k) == CHOOSE e \in S : Cardinality({ t \in S : t <= e }) = k

\* pts is made of the waypoints of p at the positions S, in path order.
ChosenAt(p, pts, S) ==
  /\ Cardinality(S) = Len(pts)
  /\ \A k \in 1..Len(pts) : pts[k] = p[Kth(S, k)]

\* C29: chooseCarrotPoints(distance) returns a subsequence of the path in
\* path order that starts with path[0], whose consecutive points are more
\* than distance apart, every waypoint left out being within distance of
\* the chosen point that precedes it.
C29_CarrotPointsSpaced ==
  points # << >> =>
    \E S \in SUBSET (1..Len(path)) :
      /\ 1 \in S
      /\ ChosenAt(path, points, S)
      /\ \A k \in 1..(Len(points) - 1) :
           (points[k].X - points[k + 1].X) * (points[k].X - points[k + 1].X)
             + (points[k].Y - points[k + 1].Y)
                 * (points[k].Y - points[k + 1].Y)
               > DISTANCE_BETWEEN_CARROT_POINTS
                   * DISTANCE_BETWEEN_CARROT_POINTS
      /\ \A j \in (1..Len(path)) \ S :
           LET before == Kth(S, Cardinality({ t \in S : t < j }))
           IN  (path[j].X - path[before].X) * (path[j].X - path[before].X)
                 + (path[j].Y - path[before].Y)
                     * (path[j].Y - path[before].Y)
                   <= DISTANCE_BETWEEN_CARROT_POINTS
                        * DISTANCE_BETWEEN_CARROT_POINTS

\* A path of three waypoints has given two carrot points: the second
\* waypoint, near the first, is left out.
C29_Witness ==
  /\ Len(path) = 3
  /\ Len(points) = 2
  /\ points[1] = path[1]
  /\ points[2] = path[3]
  /\ path[2] # path[1]
  /\ path[2] # path[3]

\* C28: in lokarriaclass-carrot.py a failed pose sample never ends the run
\* in updateAttributes: the failure is reported, x, y and heading stay as
\* the last successful sample left them, and goToPoint goes on to its
\* setSpeed with the angular speed and the loop flag computed from that
\* stored pose.
C28_SampleFailureSwallowed ==
  [][ ( /\ variant = "carrot"
        /\ pc \in {"start", "wp_update", "wp_distance"}
        /\ file # NoFile
        /\ reported' )
      => ( /\ pc' # "crashed"
           /\ error' = "none"
           /\ poseKnown' = poseKnown
           /\ x' = x
           /\ y' = y
           /\ heading' = heading
           /\ (pc = "wp_update") =>
                /\ pc' = "wp_distance"
                /\ bearing' = getBearing(x, y, heading, points[pointInd + 1])
           /\ (pc = "wp_distance") =>
                /\ pc' = "wp_send"
                /\ angularSpeed' =
                     ( IF bearing > 0 THEN WAYPOINT_ANG_SPEED
                       ELSE IF bearing < 0 THEN -WAYPOINT_ANG_SPEED
                       ELSE 0 )
                /\ linearSpeed' = WAYPOINT_LIN_SPEED
                /\ result' =
                     ( (points[pointInd + 1].X - x)
                         * (points[pointInd + 1].X - x)
                       + (points[pointInd + 1].Y - y)
                           * (points[pointInd + 1].Y - y)
                       > WAYPOINT_DISTANCE_THRESHOLD
                           * WAYPOINT_DISTANCE_THRESHOLD ) ) ]_vars

\* goToPoint is about to send a turning command although the sample made
\* by distanceTo has failed.
C28_Witness ==
  /\ variant = "carrot"
  /\ pc = "wp_send"
  /\ reported
  /\ poseKnown
  /\ angularSpeed # 0
  /\ linearSpeed = WAYPOINT_LIN_SPEED
  /\ error = "none"

====
